---- MODULE Spec2Model ----
(***************************************************************************)
(* Model of dashboard.py, the Support Supervision Maturity Model           *)
(* dashboard: the label normaliser, the theme classifier, the dictionary   *)
(* resolver and column metadata builder (load_data), the scope filter      *)
(* (filter_data) and the maturity aggregator (render_scope_summary,        *)
(* show_theme_summary_banner, facility_maturity_table).                    *)
(*                                                                         *)
(* Text is a sequence of one-character strings.  A missing value (pandas   *)
(* NaN, Python None) of a text cell is the record NaN; a present text is   *)
(* Str(s).  Atomic cells (county, facility, field type, theme) are TLA+    *)
(* strings, with "NaN" / "None" for a missing one: read_csv itself turns   *)
(* the text NaN into a missing value, so no present cell has that text.    *)
(***************************************************************************)
EXTENDS Integers, Sequences, FiniteSets, TLC

VARIABLES
    \* ---- clean_label ----
    label_in,        \* the raw label handed to clean_label
    label_once,      \* clean_label(label_in)
    label_twice,     \* clean_label(clean_label(label_in))
    label_pc,        \* "raw" -> "once" -> "twice"
    \* ---- infer_theme ----
    var_name,        \* the variable name handed to infer_theme
    theme_out,       \* infer_theme(var_name)
    theme_pc,        \* "raw" -> "done"
    \* ---- load_data ----
    dd,              \* the dictionary table, a sequence of rows
    df_columns,      \* the data table's column names
    dd_map,          \* cleaned label -> [FieldType, Theme]
    meta,            \* the column metadata rows
    load_pc,         \* "start" -> "ok" | "raised"
    \* ---- filter_data ----
    fdf,             \* the dataset handed to filter_data
    f_has_sub,       \* whether the dataset has a Subcounty column
    f_sel,           \* the (county, subcounty, facility) selection
    df_filtered,     \* filter_data(fdf, selection)
    df_refiltered,   \* filter_data(df_filtered, selection)
    filter_pc,       \* "start" -> "once" -> "twice"
    \* ---- summary banner and facility table ----
    df,              \* the dataset handed to the aggregator
    schema,          \* which optional columns the dataset has
    a_sel,           \* the (county, subcounty) selection of the banner
    banner,          \* what show_theme_summary_banner rendered
    agg,             \* what facility_maturity_table returned
    agg_pc           \* "start" -> "banner" | "banner_raised" | "table" | "table_raised"

label_vars  == <<label_in, label_once, label_twice, label_pc>>
theme_vars  == <<var_name, theme_out, theme_pc>>
load_vars   == <<dd, df_columns, dd_map, meta, load_pc>>
filter_vars == <<fdf, f_has_sub, f_sel, df_filtered, df_refiltered, filter_pc>>
agg_vars    == <<df, schema, a_sel, banner, agg, agg_pc>>
vars == <<label_vars, theme_vars, load_vars, filter_vars, agg_vars>>

(***************************************************************************)
(* Text                                                                    *)
(***************************************************************************)
NaN == [isna |-> TRUE, s |-> <<>>]
Str(s) == [isna |-> FALSE, s |-> s]

\* Python's str.isspace / the regex class \s, on the characters of the model.
IsSpace(c) == c \in {" ", "\t", "\n"}

\* All texts over alphabet A of length at most n.
TextsUpTo(A, n) == UNION {[1..k -> A] : k \in 0..n}

\* s[i..] starts with p
StartsAt(s, i, p) ==
    /\ i + Len(p) - 1 <= Len(s)
    /\ \A k \in 1..Len(p) : s[i + k - 1] = p[k]

\* str.startswith
startswith(s, p) == StartsAt(s, 1, p)

\* the Python test `p in s`
contains(s, p) == \E i \in 1..(Len(s) + 1) : StartsAt(s, i, p)

\* str.strip(): the longest slice with no white space at either end
strip(s) ==
    LET keep == {i \in 1..Len(s) : ~IsSpace(s[i])}
    IN  IF keep = {} THEN <<>>
        ELSE LET lo == CHOOSE i \in keep : \A j \in keep : i <= j
                 hi == CHOOSE i \in keep : \A j \in keep : j <= i
             IN  SubSeq(s, lo, hi)

(***************************************************************************)
(* clean_label (dashboard.py 56-61)                                        *)
(***************************************************************************)
\* re.sub("<.*?>", "", s): scanning from the left, a "<" that is followed on
\* the same line by a ">" is removed together with everything up to the
\* nearest such ">" ("." does not match a newline); any other character is
\* kept and the scan moves on by one.
RECURSIVE StripTagsFrom(_, _)
StripTagsFrom(s, i) ==
    IF i > Len(s) THEN <<>>
    ELSE LET closers == {j \in (i + 1)..Len(s) :
                            /\ s[j] = ">"
                            /\ \A k \in (i + 1)..(j - 1) : s[k] # ">" /\ s[k] # "\n"}
         IN  IF s[i] = "<" /\ closers # {}
             THEN StripTagsFrom(s, (CHOOSE j \in closers : TRUE) + 1)
             ELSE <<s[i]>> \o StripTagsFrom(s, i + 1)

StripTags(s) == StripTagsFrom(s, 1)

\* re.sub(r"\s+", " ", s): every maximal run of white space becomes one space.
RECURSIVE CollapseFrom(_, _)
CollapseFrom(s, i) ==
    IF i > Len(s) THEN <<>>
    ELSE IF IsSpace(s[i])
         THEN IF i > 1 /\ IsSpace(s[i - 1])
              THEN CollapseFrom(s, i + 1)
              ELSE <<" ">> \o CollapseFrom(s, i + 1)
         ELSE <<s[i]>> \o CollapseFrom(s, i + 1)

CollapseSpace(s) == CollapseFrom(s, 1)

clean_label(x) ==
    IF x.isna THEN NaN
    ELSE Str(strip(CollapseSpace(StripTags(x.s))))

\* The characters labels are drawn from, and the longest label.
LabelChars == {"<", ">", "a", " ", "\n"}
MaxLabelLen == 4

LabelIdle ==
    /\ label_in = NaN
    /\ label_once = NaN
    /\ label_twice = NaN
    /\ label_pc = "idle"

InitLabel ==
    /\ label_in \in {NaN} \cup {Str(s) : s \in TextsUpTo(LabelChars, MaxLabelLen)}
    /\ label_once = NaN
    /\ label_twice = NaN
    /\ label_pc = "raw"

\* dd["Field Label"].apply(clean_label), one cell
Normalize ==
    /\ label_pc = "raw"
    /\ label_once' = clean_label(label_in)
    /\ label_pc' = "once"
    /\ UNCHANGED <<label_in, label_twice, theme_vars, load_vars, filter_vars, agg_vars>>

\* the cleaned label normalised again
Renormalize ==
    /\ label_pc = "once"
    /\ label_twice' = clean_label(label_once)
    /\ label_pc' = "twice"
    /\ UNCHANGED <<label_in, label_once, theme_vars, load_vars, filter_vars, agg_vars>>

LabelNext == Normalize \/ Renormalize

(***************************************************************************)
(* infer_theme (dashboard.py 64-81)                                        *)
(***************************************************************************)
\* str.lower(), on the characters of the model
LowerChar(c) ==
    CASE c = "M" -> "m"
      [] c = "S" -> "s"
      [] c = "C" -> "c"
      [] c = "O" -> "o"
      [] c = "R" -> "r"
      [] c = "E" -> "e"
      [] c = "D" -> "d"
      [] OTHER -> c

lower(s) == [i \in 1..Len(s) |-> LowerChar(s[i])]

P_sd == <<"s", "d", "_">>
P_cc == <<"c", "c", "_">>
P_dq == <<"d", "q", "_">>
P_cl == <<"c", "l", "_">>
P_hr == <<"h", "r", "_">>
P_ss == <<"s", "s", "_">>
K_maturity == <<"m", "a", "t", "u", "r", "i", "t", "y">>
K_score_pct == <<"s", "c", "o", "r", "e", "_", "p", "c", "t">>

\* The value infer_theme returns for "no theme" (Python None).
NoTheme == "None"

infer_theme_keyword_first(v) ==
    IF v.isna THEN NoTheme
    ELSE IF contains(lower(v.s), K_maturity) \/ contains(lower(v.s), K_score_pct) THEN "Summary"
    ELSE IF startswith(v.s, P_sd) THEN "Service Delivery"
    ELSE IF startswith(v.s, P_cc) THEN "Logistics & Cold Chain"
    ELSE IF startswith(v.s, P_dq) THEN "Data Quality"
    ELSE IF startswith(v.s, P_cl) THEN "Community Linkage"
    ELSE IF startswith(v.s, P_hr) THEN "HRH"
    ELSE IF startswith(v.s, P_ss) THEN "Support Supervision"
    ELSE NoTheme

\* A variable name that is no string (a missing cell read as NaN) is v.isna.
infer_theme(v) ==
    IF v.isna THEN NoTheme
    ELSE IF startswith(v.s, P_sd) THEN "Service Delivery"
    ELSE IF startswith(v.s, P_cc) THEN "Logistics & Cold Chain"
    ELSE IF startswith(v.s, P_dq) THEN "Data Quality"
    ELSE IF startswith(v.s, P_cl) THEN "Community Linkage"
    ELSE IF startswith(v.s, P_hr) THEN "HRH"
    ELSE IF startswith(v.s, P_ss) THEN "Support Supervision"
    ELSE IF contains(lower(v.s), K_maturity) \/ contains(lower(v.s), K_score_pct) THEN "Summary"
    ELSE NoTheme

\* Variable names are built from at most MaxNamePieces of these pieces.
NamePieces ==
    { P_sd, P_cc, P_dq, P_cl, P_hr, P_ss,
      <<"S", "D", "_">>, <<"M", "a", "t", "u", "r", "i", "t", "y">>, <<"s", "c", "o", "r", "e", "_", "p", "c", "t">>, <<"S", "C", "O", "R", "E", "_">>, <<"p", "c", "t">>, <<"m", "a", "t", "u", "r">>, <<"i", "t", "y">>, <<"x">>, <<"s">> }
MaxNamePieces == 2

RECURSIVE Concat(_)
Concat(ps) == IF ps = <<>> THEN <<>> ELSE Head(ps) \o Concat(Tail(ps))

NameTexts == {Concat(ps) : ps \in TextsUpTo(NamePieces, MaxNamePieces)}

ThemeIdle ==
    /\ var_name = NaN
    /\ theme_out = NoTheme
    /\ theme_pc = "idle"

InitTheme ==
    /\ var_name \in {NaN} \cup {Str(s) : s \in NameTexts}
    /\ theme_out = NoTheme
    /\ theme_pc = "raw"

\* dd["Variable / Field Name"].apply(infer_theme), one cell
Classify ==
    /\ theme_pc = "raw"
    /\ theme_out' = infer_theme(var_name)
    /\ theme_pc' = "done"
    /\ UNCHANGED <<var_name, label_vars, load_vars, filter_vars, agg_vars>>

ThemeNext == Classify

(***************************************************************************)
(* load_data (dashboard.py 84-133)                                         *)
(***************************************************************************)
COUNTY_COL == <<"C", "o", "u", "n", "t", "y">>
SUBCOUNTY_COL == <<"S", "u", "b", "c", "o", "u", "n", "t", "y">>
FACILITY_COL == <<"S", "e", "l", "e", "c", "t", " ", "t", "h", "e", " ", "F", "a", "c", "i", "l", "i", "t", "y", " ", "B", "e", "i", "n", "g", " ", "S", "u", "p", "e", "r", "v", "i", "s", "e", "d">>

\* the columns load_data skips (dashboard.py 100-109)
AdminColumns ==
    { COUNTY_COL, FACILITY_COL, SUBCOUNTY_COL,
      <<"U", "n", "n", "a", "m", "e", "d", ":", " ", "0">>,
      <<"S", "u", "r", "v", "e", "y", " ", "I", "d", "e", "n", "t", "i", "f", "i", "e", "r">>,
      <<"S", "u", "r", "v", "e", "y", " ", "T", "i", "m", "e", "s", "t", "a", "m", "p">>,
      <<"P", "l", "e", "a", "s", "e", " ", "e", "n", "t", "e", "r", " ", "y", "o", "u", "r", " ", "i", "n", "i", "t", "i", "a", "l", "s", " ", "a", "s", " ", "t", "h", "e", " ", "d", "a", "t", "a", " ", "c", "o", "l", "l", "e", "c", "t", "o", "r">>,
      <<"D", "a", "t", "e", " ", "o", "f", " ", "d", "a", "t", "a", " ", "c", "o", "l", "l", "e", "c", "t", "i", "o", "n">> }

CHOICE_SEP == <<"(", "c", "h", "o", "i", "c", "e", "=">>

\* str(col).split("(choice=")[0]: the text before the first occurrence of the
\* separator, the whole text when there is none
BeforeSep(s, sep) ==
    LET hits == {i \in 1..Len(s) : StartsAt(s, i, sep)}
    IN  IF hits = {} THEN s
        ELSE SubSeq(s, 1, (CHOOSE i \in hits : \A j \in hits : i <= j) - 1)

\* base = str(col).split("(choice=")[0].strip()
BaseLabel(col) == strip(BeforeSep(col, CHOICE_SEP))

\* A missing Field Type cell, and the field_type of a column without one.
NoType == "NaN"
NoneType == "None"

\* dd["label_clean"], dd["Theme"] (dashboard.py 89-90), row by row
Annotated(d) ==
    [i \in 1..Len(d) |->
        [label_clean |-> clean_label(d[i].label),
         FieldType   |-> d[i].ftype,
         Theme       |-> infer_theme(d[i].var)]]

\* .dropna(how="all") on ["Field Type", "Theme"]: the rows kept
KeptRows(a) ==
    {i \in 1..Len(a) : ~(a[i].FieldType = NoType /\ a[i].Theme = NoTheme)}

\* DataFrame.to_dict(orient="index") raises ValueError unless the index (the
\* cleaned labels of the rows kept, missing ones included) is unique.
IndexUnique(a) ==
    \A i, j \in KeptRows(a) : a[i].label_clean = a[j].label_clean => i = j

\* dd_map (dashboard.py 92-96) of the annotated table a, when the index is unique
DictMap(a) ==
    [k \in {a[i].label_clean : i \in KeptRows(a)} |->
        LET i == CHOOSE j \in KeptRows(a) : a[j].label_clean = k
        IN  [FieldType |-> a[i].FieldType, Theme |-> a[i].Theme]]

NoInfo == [FieldType |-> NoType, Theme |-> NoTheme, found |-> FALSE]
Found(e) == [FieldType |-> e.FieldType, Theme |-> e.Theme, found |-> TRUE]

ColumnInfo_raw_first(col, base, map) ==
    IF Str(col) \in DOMAIN map THEN Found(map[Str(col)])
    ELSE IF Str(base) \in DOMAIN map THEN Found(map[Str(base)])
    ELSE NoInfo

\* info = dd_map.get(base) or dd_map.get(col): an entry is a dict of two keys,
\* never falsy, so the second lookup runs exactly when the first misses
ColumnInfo(col, base, map) ==
    IF Str(base) \in DOMAIN map THEN Found(map[Str(base)])
    ELSE IF Str(col) \in DOMAIN map THEN Found(map[Str(col)])
    ELSE NoInfo

\* one meta row (dashboard.py 112-130)
ColumnMeta(col, map) ==
    LET base == BaseLabel(col)
        info == ColumnInfo(col, base, map)
        field_type == IF info.found /\ info.FieldType # NoType THEN info.FieldType ELSE NoneType
    IN  [column         |-> col,
         base_label     |-> base,
         field_type     |-> field_type,
         theme          |-> IF info.found THEN info.Theme ELSE NoTheme,
         is_categorical |-> field_type \in {"yesno", "radio", "dropdown", "checkbox"},
         is_open_ended  |-> field_type \in {"text", "notes"}]

\* the loop over df.columns (dashboard.py 98-132)
RECURSIVE MetaRows(_, _)
MetaRows(cols, map) ==
    IF cols = <<>> THEN <<>>
    ELSE IF Head(cols) \in AdminColumns THEN MetaRows(Tail(cols), map)
    ELSE <<ColumnMeta(Head(cols), map)>> \o MetaRows(Tail(cols), map)

\* The dictionary rows and data columns the model draws from.
C_fridge == <<"c", "c", "_", "f", "r", "i", "d", "g", "e", "_", "t", "e", "m", "p">>
C_fridge_yes == <<"c", "c", "_", "f", "r", "i", "d", "g", "e", "_", "t", "e", "m", "p", " ", "(", "c", "h", "o", "i", "c", "e", "=", "Y", "e", "s", ")">>
DictVars == {Str(C_fridge), Str(<<"q", "1">>)}
DictLabels == {Str(C_fridge), Str(<<"<", "b", ">", "c", "c", "_", "f", "r", "i", "d", "g", "e", "_", "t", "e", "m", "p", "<", "/", "b", ">", " ">>), Str(C_fridge_yes), NaN}
DictTypes == {"yesno", "text", NoType}
DictRows == [var : DictVars, label : DictLabels, ftype : DictTypes]
MaxDictRows == 2
C_q1 == <<"Q", "1">>
Schemas ==
    { <<COUNTY_COL, C_fridge_yes, C_fridge, C_q1, FACILITY_COL>>,
      <<C_q1, SUBCOUNTY_COL, C_fridge, C_fridge_yes>> }

EmptyMap == [k \in {} |-> NoInfo]

LoadIdle ==
    /\ dd = <<>>
    /\ df_columns = <<>>
    /\ dd_map = EmptyMap
    /\ meta = <<>>
    /\ load_pc = "idle"

InitLoad ==
    /\ dd \in TextsUpTo(DictRows, MaxDictRows)
    /\ df_columns \in Schemas
    /\ dd_map = EmptyMap
    /\ meta = <<>>
    /\ load_pc = "start"

\* load_data returns (df, meta)
LoadOk ==
    /\ load_pc = "start"
    /\ IndexUnique(Annotated(dd))
    /\ LET map == DictMap(Annotated(dd))
       IN  /\ dd_map' = map
           /\ meta' = MetaRows(df_columns, map)
    /\ load_pc' = "ok"
    /\ UNCHANGED <<dd, df_columns, label_vars, theme_vars, filter_vars, agg_vars>>

\* load_data raises ValueError out of to_dict(orient="index")
LoadRaises ==
    /\ load_pc = "start"
    /\ ~IndexUnique(Annotated(dd))
    /\ load_pc' = "raised"
    /\ UNCHANGED <<dd, df_columns, dd_map, meta, label_vars, theme_vars, filter_vars, agg_vars>>

LoadNext == LoadOk \/ LoadRaises

(***************************************************************************)
(* filter_data (dashboard.py 136-148)                                      *)
(*                                                                         *)
(* A dataset is a sequence of rows; idx is the row's position in the       *)
(* loaded table (its pandas index label), which filtering keeps.  A row of *)
(* a dataset without a Subcounty column has subcounty = NoColumn.          *)
(***************************************************************************)
ALL == "All"
NoValue == "NaN"
NoColumn == "<absent>"

\* df[df[col] == value] keeps the rows whose cell equals the value; a missing
\* cell equals nothing.
FilterCounty(d, county) ==
    IF county # ALL
    THEN LET T(r) == r.county # NoValue /\ r.county = county IN SelectSeq(d, T)
    ELSE d

FilterSubcounty(d, has_sub, subcounty) ==
    IF has_sub /\ subcounty # ALL
    THEN LET T(r) == r.subcounty # NoValue /\ r.subcounty = subcounty IN SelectSeq(d, T)
    ELSE d

FilterFacility_county_column(d, facility) ==
    IF facility # ALL
    THEN LET T(r) == r.county # NoValue /\ r.county = facility IN SelectSeq(d, T)
    ELSE d

FilterFacility(d, facility) ==
    IF facility # ALL
    THEN LET T(r) == r.facility # NoValue /\ r.facility = facility IN SelectSeq(d, T)
    ELSE d

filter_data(d, has_sub, county, subcounty, facility) ==
    FilterFacility(FilterSubcounty(FilterCounty(d, county), has_sub, subcounty), facility)

\* The cells and selections the model draws from, and the longest dataset.
Counties == {"A", "B"}
Subcounties == {"X", NoValue}
Facilities == {"F", "G"}
MaxFilterRows == 2

FilterCells(has_sub) ==
    [county : Counties,
     subcounty : IF has_sub THEN Subcounties ELSE {NoColumn},
     facility : Facilities]

\* the table as loaded: row i carries index label i
Indexed(cells) ==
    [i \in 1..Len(cells) |->
        [idx |-> i, county |-> cells[i].county,
         subcounty |-> cells[i].subcounty, facility |-> cells[i].facility]]

Selections ==
    [county : Counties \cup {ALL}, subcounty : {"X", "Y", ALL}, facility : Facilities \cup {ALL}]

FilterIdle ==
    /\ fdf = <<>>
    /\ f_has_sub = FALSE
    /\ f_sel = [county |-> ALL, subcounty |-> ALL, facility |-> ALL]
    /\ df_filtered = <<>>
    /\ df_refiltered = <<>>
    /\ filter_pc = "idle"

InitFilter ==
    /\ f_has_sub \in BOOLEAN
    /\ fdf \in {Indexed(c) : c \in TextsUpTo(FilterCells(f_has_sub), MaxFilterRows)}
    /\ f_sel \in Selections
    /\ df_filtered = <<>>
    /\ df_refiltered = <<>>
    /\ filter_pc = "start"

\* df_f = filter_data(df, county, subcounty, facility)
Filter ==
    /\ filter_pc = "start"
    /\ df_filtered' = filter_data(fdf, f_has_sub, f_sel.county, f_sel.subcounty, f_sel.facility)
    /\ filter_pc' = "once"
    /\ UNCHANGED <<fdf, f_has_sub, f_sel, df_refiltered, label_vars, theme_vars, load_vars, agg_vars>>

\* the same selection applied to the filtered dataset
Refilter ==
    /\ filter_pc = "once"
    /\ df_refiltered' = filter_data(df_filtered, f_has_sub, f_sel.county, f_sel.subcounty, f_sel.facility)
    /\ filter_pc' = "twice"
    /\ UNCHANGED <<fdf, f_has_sub, f_sel, df_filtered, label_vars, theme_vars, load_vars, agg_vars>>

FilterNext == Filter \/ Refilter

(***************************************************************************)
(* The maturity aggregator (dashboard.py 151-153, 214-268)                 *)
(*                                                                         *)
(* The dataset holds the columns of the requested theme: County, the       *)
(* facility column, and, as the schema says, Subcounty, the theme's score  *)
(* column (THEME_SCORE_COLS[theme]) and its maturity column                *)
(* (THEME_MATURITY_COLS[theme]).  A score cell is a number or missing; a   *)
(* maturity cell is missing ("nan"), a number ("num") or a text that is no *)
(* number ("str"; read_csv then leaves the column as text).  A mean is     *)
(* kept exactly, as the sum and the count of the values it is the mean of. *)
(***************************************************************************)
NoScore == [na |-> TRUE, v |-> 0]
Score(n) == [na |-> FALSE, v |-> n]
MatNaN == [kind |-> "nan", v |-> 0]
MatNum(n) == [kind |-> "num", v |-> n]
MatText == [kind |-> "str", v |-> 0]

NoTier == "None"
NullMean == [null |-> TRUE, sum |-> 0, n |-> 1]
Mean(sum, n) == [null |-> FALSE, sum |-> sum, n |-> n]

\* mapping.get(x) for a number x (dashboard.py 151-153)
maturity_label(x) ==
    CASE x = 1 -> "Bronze"
      [] x = 2 -> "Silver"
      [] x = 3 -> "Gold"
      [] OTHER -> NoTier

\* maturity_label applied to a cell: a text or a missing cell is no key of the mapping
CellTier(m) == IF m.kind = "num" THEN maturity_label(m.v) ELSE NoTier

RECURSIVE SumOf(_)
SumOf(s) == IF s = <<>> THEN 0 ELSE Head(s) + SumOf(Tail(s))

RoundHalfUp(sum, n) == (2 * sum + n) \div (2 * n)

\* round(x) of the float x = sum / n, n > 0: to the nearest integer, an exact
\* half to the even one
RoundHalfEven(sum, n) ==
    LET q == sum \div n
        r == sum % n
    IN  IF 2 * r < n THEN q
        ELSE IF 2 * r > n THEN q + 1
        ELSE IF q % 2 = 0 THEN q ELSE q + 1

\* series.dropna(), as the sequence of the values left
ScoreValues(rows) ==
    LET P(r) == ~r.score.na
        kept == SelectSeq(rows, P)
    IN  [i \in 1..Len(kept) |-> kept[i].score.v]

MatCells(rows) ==
    LET P(r) == r.mat.kind # "nan"
        kept == SelectSeq(rows, P)
    IN  [i \in 1..Len(kept) |-> kept[i].mat]

MeanScore_zero_when_empty(rows) ==
    IF ScoreValues(rows) = <<>> THEN Mean(0, 1)
    ELSE Mean(SumOf(ScoreValues(rows)), Len(ScoreValues(rows)))

\* series.dropna().mean(), None for an empty series (dashboard.py 215)
MeanScore(rows) ==
    IF ScoreValues(rows) = <<>> THEN NullMean
    ELSE Mean(SumOf(ScoreValues(rows)), Len(ScoreValues(rows)))

\* mat_series.dropna().astype(float) raises ValueError on a text that is no number
AsFloatRaises(rows) == \E i \in 1..Len(MatCells(rows)) : MatCells(rows)[i].kind = "str"

\* maturity_label(round(mat_series.dropna().astype(float).mean())) (dashboard.py 216-218)
MeanTier(rows) ==
    LET cells == MatCells(rows)
        vals == [i \in 1..Len(cells) |-> cells[i].v]
    IN  IF cells = <<>> THEN NoTier
        ELSE maturity_label(RoundHalfEven(SumOf(vals), Len(vals)))

NoSummary == [shown |-> FALSE, raised |-> FALSE, score |-> NullMean, maturity |-> NoTier]

\* render_scope_summary (dashboard.py 214-233): the score and the tier of the box
render_scope_summary(rows) ==
    IF AsFloatRaises(rows)
    THEN [shown |-> FALSE, raised |-> TRUE, score |-> NullMean, maturity |-> NoTier]
    ELSE [shown |-> TRUE, raised |-> FALSE, score |-> MeanScore(rows), maturity |-> MeanTier(rows)]

\* mat_str = MATURITY_ICONS.get(maturity, "N/A") (dashboard.py 222)
MatStr(maturity) == IF maturity \in {"Bronze", "Silver", "Gold"} THEN maturity ELSE "N/A"

\* dfc and dfs (dashboard.py 243, 248)
CountyRows(rows, county) ==
    LET T(r) == r.county # NoValue /\ r.county = county
    IN  IF county # ALL THEN SelectSeq(rows, T) ELSE rows

SubcountyRows(rows, subcounty) ==
    LET T(r) == r.subcounty # NoValue /\ r.subcounty = subcounty
    IN  SelectSeq(rows, T)

\* dfc[s_col], dfc[m_col] raise KeyError when the column is not in the dataset
ColumnsMissing(sch) == ~sch.score \/ ~sch.mat

\* show_theme_summary_banner (dashboard.py 236-251)
show_theme_summary_banner(rows, sch, county, subcounty) ==
    IF ColumnsMissing(sch)
    THEN [raised |-> TRUE, county |-> NoSummary, subcounty |-> NoSummary]
    ELSE LET c1 == render_scope_summary(CountyRows(rows, county))
             c2 == IF subcounty # ALL /\ sch.sub
                   THEN render_scope_summary(SubcountyRows(rows, subcounty))
                   ELSE NoSummary
         IN  IF c1.raised
             THEN [raised |-> TRUE, county |-> c1, subcounty |-> NoSummary]
             ELSE [raised |-> c2.raised, county |-> c1, subcounty |-> c2]

\* tmp = df[cols].dropna(subset=[m_col]) with its "Maturity Category" column
\* (dashboard.py 259-263)
Categorised(rows) ==
    LET P(r) == r.mat.kind # "nan"
        tmp == SelectSeq(rows, P)
    IN  [i \in 1..Len(tmp) |->
            [county |-> tmp[i].county, subcounty |-> tmp[i].subcounty,
             facility |-> tmp[i].facility, score |-> tmp[i].score,
             category |-> CellTier(tmp[i].mat)]]

\* groupby(...) drops, by default, every row with a missing group key
KeyOf(r) ==
    [county |-> r.county, subcounty |-> r.subcounty, facility |-> r.facility,
     category |-> r.category]

HasKey(r) ==
    /\ r.county # NoValue
    /\ r.subcounty # NoValue
    /\ r.facility # NoValue
    /\ r.category # NoTier

GroupKeys(tmp) == {KeyOf(tmp[i]) : i \in {j \in 1..Len(tmp) : HasKey(tmp[j])}}

\* [s_col].mean() of one group: the mean of its scores that are not missing,
\* missing when it has none
GroupMean(tmp, k) ==
    LET P(r) == KeyOf(r) = k
    IN  MeanScore(SelectSeq(tmp, P))

\* agg before it is sorted (dashboard.py 264-266), as the set of its rows
Groups(tmp) ==
    {[county |-> k.county, subcounty |-> k.subcounty, facility |-> k.facility,
      category |-> k.category, score |-> GroupMean(tmp, k)] : k \in GroupKeys(tmp)}

\* a comes no later than b in a column sorted descending, missing values last
MeanGeq(a, b) == a.sum * b.n >= b.sum * a.n
NoLaterAscending(a, b) == b.null \/ (~a.null /\ MeanGeq(b, a))
NoLaterDescending(a, b) == b.null \/ (~a.null /\ MeanGeq(a, b))

\* agg.sort_values("Score (%)", ascending=False) (dashboard.py 267).  The
\* order of rows with equal scores is left open: it is that of the group keys
\* under the default, unstable, sort kind.
SortedTables(G) ==
    {t \in [1..Cardinality(G) -> G] :
        /\ \A i, j \in 1..Cardinality(G) : t[i] = t[j] => i = j
        /\ \A i \in 1..(Cardinality(G) - 1) : NoLaterDescending(t[i].score, t[i + 1].score)}

\* fac[fac["Maturity Category"] == cat] (dashboard.py 301, 347)
Bucket(t, cat) == LET P(g) == g.category = cat IN SelectSeq(t, P)

\* The cells the model draws from, and the longest dataset.
Sites == {[county |-> "A", facility |-> "F"], [county |-> "B", facility |-> "G"]}
ScoreCells == {NoScore, Score(60), Score(85)}
NumCells == {MatNaN, MatNum(1), MatNum(2), MatNum(3), MatNum(5)}
TextCells == {MatNaN, MatText}
MaxAggRows == 2

AggCells(sch) ==
    {[county |-> s.county, subcounty |-> sub, facility |-> s.facility, score |-> sc, mat |-> m] :
        s \in Sites,
        sub \in IF sch.sub THEN {"X"} ELSE {NoColumn},
        sc \in IF sch.score THEN ScoreCells ELSE {NoScore},
        m \in IF sch.mat THEN NumCells \cup TextCells ELSE {MatNaN}}

\* read_csv gives a column one type: numbers throughout, or, when a cell is
\* no number, text throughout
OneType(rows) ==
    \/ \A i \in 1..Len(rows) : rows[i].mat \in NumCells
    \/ \A i \in 1..Len(rows) : rows[i].mat \in TextCells

AggIdle ==
    /\ df = <<>>
    /\ schema = [sub |-> FALSE, score |-> FALSE, mat |-> FALSE]
    /\ a_sel = [county |-> ALL, subcounty |-> ALL]
    /\ banner = [raised |-> FALSE, county |-> NoSummary, subcounty |-> NoSummary]
    /\ agg = <<>>
    /\ agg_pc = "idle"

InitAgg ==
    /\ schema \in [sub : BOOLEAN, score : BOOLEAN, mat : BOOLEAN]
    /\ df \in {d \in TextsUpTo(AggCells(schema), MaxAggRows) : OneType(d)}
    /\ a_sel = [county |-> ALL, subcounty |-> ALL]
    /\ banner = [raised |-> FALSE, county |-> NoSummary, subcounty |-> NoSummary]
    /\ agg = <<>>
    /\ agg_pc = "start"

\* show_theme_summary_banner(df, theme, county, subcounty) returns
BannerOk(county, subcounty) ==
    /\ agg_pc = "start"
    /\ ~show_theme_summary_banner(df, schema, county, subcounty).raised
    /\ banner' = show_theme_summary_banner(df, schema, county, subcounty)
    /\ a_sel' = [county |-> county, subcounty |-> subcounty]
    /\ agg_pc' = "banner"
    /\ UNCHANGED <<df, schema, agg, label_vars, theme_vars, load_vars, filter_vars>>

\* show_theme_summary_banner raises (KeyError, ValueError)
BannerRaises(county, subcounty) ==
    /\ agg_pc = "start"
    /\ show_theme_summary_banner(df, schema, county, subcounty).raised
    /\ banner' = show_theme_summary_banner(df, schema, county, subcounty)
    /\ a_sel' = [county |-> county, subcounty |-> subcounty]
    /\ agg_pc' = "banner_raised"
    /\ UNCHANGED <<df, schema, agg, label_vars, theme_vars, load_vars, filter_vars>>

\* facility_maturity_table(df, theme) returns agg
TableOk ==
    /\ agg_pc = "start"
    /\ ~ColumnsMissing(schema)
    /\ agg' \in SortedTables(Groups(Categorised(df)))
    /\ agg_pc' = "table"
    /\ UNCHANGED <<df, schema, a_sel, banner, label_vars, theme_vars, load_vars, filter_vars>>

\* facility_maturity_table raises KeyError: dropna(subset=[m_col]) without the
\* maturity column, groupby(...)[s_col] without the score column
TableRaises ==
    /\ agg_pc = "start"
    /\ ColumnsMissing(schema)
    /\ agg_pc' = "table_raised"
    /\ UNCHANGED <<df, schema, a_sel, banner, agg, label_vars, theme_vars, load_vars, filter_vars>>

\* the selections the sidebar offers
BannerCounties == {ALL, "A"}
BannerSubcounties == {ALL, "X"}

AggNext ==
    \/ \E county \in BannerCounties, subcounty \in BannerSubcounties : BannerOk(county, subcounty)
    \/ \E county \in BannerCounties, subcounty \in BannerSubcounties : BannerRaises(county, subcounty)
    \/ TableOk
    \/ TableRaises

(***************************************************************************)
(* Specifications: one per operation of the engine, each starting from the *)
(* inputs of that operation with the rest of the state idle.               *)
(***************************************************************************)
LabelStart == InitLabel /\ ThemeIdle /\ LoadIdle /\ FilterIdle /\ AggIdle
ThemeStart == LabelIdle /\ InitTheme /\ LoadIdle /\ FilterIdle /\ AggIdle
LoadStart == LabelIdle /\ ThemeIdle /\ InitLoad /\ FilterIdle /\ AggIdle
FilterStart == LabelIdle /\ ThemeIdle /\ LoadIdle /\ InitFilter /\ AggIdle
AggStart == LabelIdle /\ ThemeIdle /\ LoadIdle /\ FilterIdle /\ InitAgg

SpecLabel == LabelStart /\ [][LabelNext]_vars
SpecTheme == ThemeStart /\ [][ThemeNext]_vars
SpecLoad == LoadStart /\ [][LoadNext]_vars
SpecFilter == FilterStart /\ [][FilterNext]_vars
SpecAgg == AggStart /\ [][AggNext]_vars

(***************************************************************************)
(* Properties                                                              *)
(***************************************************************************)

\* ---- Dictionary Resolver ----
\* the rows that enter the mapping (those with a field type or a theme) whose
\* cleaned label is k
RowsLabelled(k) == {i \in KeptRows(Annotated(dd)) : clean_label(dd[i].label) = k}
DuplicatedLabels ==
    {k \in {clean_label(dd[i].label) : i \in 1..Len(dd)} :
        ~k.isna /\ Cardinality(RowsLabelled(k)) >= 2}
LastRowLabelled(k) == CHOOSE i \in RowsLabelled(k) : \A j \in RowsLabelled(k) : j <= i

\* C1: when two or more dictionary rows have the same cleaned label, building
\* the mapping succeeds and the entry under that label holds the field type
\* and theme of the last such row in table order.
C1_LastWriteWins ==
    load_pc # "start" =>
        \A k \in DuplicatedLabels :
            /\ load_pc = "ok"
            /\ k \in DOMAIN dd_map
            /\ dd_map[k] = [FieldType |-> dd[LastRowLabelled(k)].ftype,
                            Theme |-> infer_theme(dd[LastRowLabelled(k)].var)]

\* ---- Label Normalizer ----
HasMarkup(s) == \E i, j \in 1..Len(s) : i < j /\ s[i] = "<" /\ s[j] = ">"
HasSpaceRun(s) == \E i \in 1..(Len(s) - 1) : IsSpace(s[i]) /\ IsSpace(s[i + 1])
HasOuterSpace(s) == s # <<>> /\ (IsSpace(s[1]) \/ IsSpace(s[Len(s)]))

\* C4: clean_label is idempotent on every label that is not missing, and one
\* pass leaves no angle-bracket markup, no run of white space and no white
\* space at either end.
C4_Idempotent ==
    (label_pc = "twice" /\ ~label_in.isna) =>
        /\ label_twice = label_once
        /\ ~HasMarkup(label_once.s)
        /\ ~HasSpaceRun(label_once.s)
        /\ ~HasOuterSpace(label_once.s)

\* ---- Column Metadata Builder ----
\* p is col cut at the first "(choice=" (col itself when there is none)
CutAtFirstSep(col, p) ==
    \E k \in 0..Len(col) :
        /\ p = SubSeq(col, 1, k)
        /\ \A i \in 1..k : ~StartsAt(col, i, CHOICE_SEP)
        /\ k = Len(col) \/ StartsAt(col, k + 1, CHOICE_SEP)

\* b is p without the white space at its ends
Trimmed(p, b) ==
    \E i, j \in 0..Len(p) :
        /\ i + j <= Len(p)
        /\ b = SubSeq(p, i + 1, Len(p) - j)
        /\ \A n \in 1..i : IsSpace(p[n])
        /\ \A n \in (Len(p) - j + 1)..Len(p) : IsSpace(p[n])
        /\ b = <<>> \/ (~IsSpace(b[1]) /\ ~IsSpace(b[Len(b)]))

IsBaseLabel(col, b) ==
    \E k \in 0..Len(col) : CutAtFirstSep(col, SubSeq(col, 1, k)) /\ Trimmed(SubSeq(col, 1, k), b)

TakenFrom(m, e) ==
    /\ m.theme = e.Theme
    /\ m.field_type = IF e.FieldType = NoType THEN NoneType ELSE e.FieldType

RetainedColumns == LET P(c) == c \notin AdminColumns IN SelectSeq(df_columns, P)

FridgeEntryInDictionary ==
    \E i \in 1..Len(dd) :
        /\ clean_label(dd[i].label) = Str(C_fridge)
        /\ ~dd[i].var.isna /\ startswith(dd[i].var.s, P_cc)
        /\ dd[i].ftype = "yesno"

\* C7: every retained column gets one metadata row; its base label is the
\* column name cut at the first "(choice=" and trimmed; its metadata comes from
\* the mapping's entry for the base label if there is one, else from the entry
\* for the raw column name, else field type and theme are absent and both
\* flags false.  "cc_fridge_temp (choice=Yes)" with a yesno entry labelled
\* "cc_fridge_temp" (variable cc_...) is categorical, Logistics & Cold Chain.
C7_TwoStepLookup ==
    load_pc = "ok" =>
        /\ Len(meta) = Len(RetainedColumns)
        /\ \A i \in 1..Len(meta) :
            LET m == meta[i]
                c == RetainedColumns[i]
            IN  /\ m.column = c
                /\ IsBaseLabel(c, m.base_label)
                /\ IF Str(m.base_label) \in DOMAIN dd_map
                   THEN TakenFrom(m, dd_map[Str(m.base_label)])
                   ELSE IF Str(c) \in DOMAIN dd_map
                   THEN TakenFrom(m, dd_map[Str(c)])
                   ELSE /\ m.field_type = NoneType
                        /\ m.theme = NoTheme
                        /\ ~m.is_categorical
                        /\ ~m.is_open_ended
                /\ (c = C_fridge_yes /\ FridgeEntryInDictionary) =>
                        (m.is_categorical /\ m.theme = "Logistics & Cold Chain")

\* the scenario of C7: the choice column resolved through its base label
C7_Witness ==
    /\ load_pc = "ok"
    /\ FridgeEntryInDictionary
    /\ Str(C_fridge_yes) \notin DOMAIN dd_map
    /\ \E i \in 1..Len(meta) :
        /\ meta[i].column = C_fridge_yes
        /\ meta[i].base_label = C_fridge
        /\ meta[i].is_categorical
        /\ meta[i].theme = "Logistics & Cold Chain"

\* ---- Theme Classifier ----
PrefixTable ==
    { <<P_sd, "Service Delivery">>, <<P_cc, "Logistics & Cold Chain">>,
      <<P_dq, "Data Quality">>, <<P_cl, "Community Linkage">>,
      <<P_hr, "HRH">>, <<P_ss, "Support Supervision">> }
HasPrefix(s) == \E e \in PrefixTable : startswith(s, e[1])
HasKeyword(s) == contains(lower(s), K_maturity) \/ contains(lower(s), K_score_pct)

\* C9: a non-string gives none; a name with one of the six prefixes gives that
\* prefix's theme whatever else it contains; a name without a prefix that
\* contains "maturity" or "score_pct" in any case gives Summary; any other
\* name gives none.
C9_FirstMatchWins ==
    theme_pc = "done" =>
        /\ var_name.isna => theme_out = NoTheme
        /\ ~var_name.isna =>
            /\ \A e \in PrefixTable : startswith(var_name.s, e[1]) => theme_out = e[2]
            /\ (~HasPrefix(var_name.s) /\ HasKeyword(var_name.s)) => theme_out = "Summary"
            /\ (~HasPrefix(var_name.s) /\ ~HasKeyword(var_name.s)) => theme_out = NoTheme

\* a prefixed name that also holds a keyword is classified by its prefix
C9_Witness ==
    /\ theme_pc = "done"
    /\ ~var_name.isna
    /\ startswith(var_name.s, P_sd)
    /\ HasKeyword(var_name.s)
    /\ theme_out = "Service Delivery"

\* ---- Scope Filter ----
Matches(r) ==
    /\ f_sel.county = ALL \/ r.county = f_sel.county
    /\ f_sel.subcounty = ALL \/ ~f_has_sub \/ r.subcounty = f_sel.subcounty
    /\ f_sel.facility = ALL \/ r.facility = f_sel.facility

AnyOrder ==
    LET c == f_sel.county
        s == f_sel.subcounty
        f == f_sel.facility
        h == f_has_sub
    IN  { FilterFacility(FilterSubcounty(FilterCounty(fdf, c), h, s), f),
          FilterSubcounty(FilterFacility(FilterCounty(fdf, c), f), h, s),
          FilterFacility(FilterCounty(FilterSubcounty(fdf, h, s), c), f),
          FilterCounty(FilterFacility(FilterSubcounty(fdf, h, s), f), c),
          FilterSubcounty(FilterCounty(FilterFacility(fdf, f), c), h, s),
          FilterCounty(FilterSubcounty(FilterFacility(fdf, f), h, s), c) }

\* C6: the result is exactly the rows matching every selection that is not
\* "All", in their original order (the subcounty selection is skipped when the
\* dataset has no Subcounty column); All/All/All returns the dataset; the
\* three constraints give the same rows in any order; filtering the result
\* again with the same selections changes nothing.
C6_ScopeFilter ==
    filter_pc \in {"once", "twice"} =>
        /\ \A i \in 1..Len(df_filtered) :
            /\ \E n \in 1..Len(fdf) : fdf[n] = df_filtered[i]
            /\ Matches(df_filtered[i])
        /\ \A n \in 1..Len(fdf) :
            Matches(fdf[n]) => \E i \in 1..Len(df_filtered) : df_filtered[i] = fdf[n]
        /\ \A i, j \in 1..Len(df_filtered) : i < j => df_filtered[i].idx < df_filtered[j].idx
        /\ (f_sel.county = ALL /\ f_sel.subcounty = ALL /\ f_sel.facility = ALL) =>
                df_filtered = fdf
        /\ AnyOrder = {df_filtered}
        /\ filter_pc = "twice" => df_refiltered = df_filtered

\* a dataset without a Subcounty column, a subcounty selected all the same,
\* and a filter that keeps some rows and drops others
C6_Witness ==
    /\ filter_pc = "twice"
    /\ ~f_has_sub
    /\ f_sel.subcounty # ALL
    /\ df_filtered # <<>>
    /\ Len(df_filtered) < Len(fdf)

\* ---- Maturity Aggregator ----
Tiers == {"Bronze", "Silver", "Gold"}
FixedTier(n) == IF n = 1 THEN "Bronze" ELSE IF n = 2 THEN "Silver" ELSE IF n = 3 THEN "Gold" ELSE NoTier

Raised == agg_pc \in {"banner_raised", "table_raised"}
BannerDone == agg_pc \in {"banner", "banner_raised"}

\* the row sets of the two boxes of the banner
CountyScope == CountyRows(df, a_sel.county)
SubcountyScope == SubcountyRows(df, a_sel.subcounty)
SubcountyAsked == a_sel.subcounty # ALL /\ schema.sub

\* C2: when the dataset lacks the theme's score or maturity column, the banner
\* returns a null score and tier, the facility table returns an empty table,
\* and neither raises.
C2_MissingColumnDegrades ==
    (agg_pc # "start" /\ ColumnsMissing(schema)) =>
        /\ ~Raised
        /\ agg_pc = "banner" => (banner.county.score.null /\ banner.county.maturity = NoTier)
        /\ agg_pc = "table" => agg = <<>>

WellFormed(m) == m.kind = "num" /\ m.v \in {1, 2, 3}
\* the rows with every malformed maturity cell emptied
WellFormedOnly(rows) ==
    [i \in 1..Len(rows) |->
        IF rows[i].mat.kind = "nan" \/ WellFormed(rows[i].mat) THEN rows[i]
        ELSE [rows[i] EXCEPT !.mat = MatNaN]]

RowSet(t) == {t[i] : i \in 1..Len(t)}

\* C3: a maturity cell that is no number, or a number outside 1..3, never
\* makes an operation fail and takes no part in the aggregation: the banner's
\* tier is the one the well-formed cells alone give, and the facility table is
\* the one the rows without the malformed cells give.
C3_MalformedExcluded ==
    ~ColumnsMissing(schema) =>
        /\ ~Raised
        /\ agg_pc = "banner" =>
            /\ banner.county.maturity = MeanTier(WellFormedOnly(CountyScope))
            /\ SubcountyAsked => banner.subcounty.maturity = MeanTier(WellFormedOnly(SubcountyScope))
        /\ agg_pc = "table" => RowSet(agg) = Groups(Categorised(WellFormedOnly(df)))

\* r is the integer nearest to sum / n, the even one of the two at an exact half
NearestHalfEven(sum, n, r) ==
    LET d == IF sum >= r * n THEN sum - r * n ELSE r * n - sum
    IN  /\ 2 * d <= n
        /\ 2 * d = n => r % 2 = 0

MatValues(rows) == [i \in 1..Len(MatCells(rows)) |-> MatCells(rows)[i].v]

TierOfScope(box, rows) ==
    MatCells(rows) # <<>> =>
        /\ \E r \in 0..SumOf(MatValues(rows)) :
            /\ NearestHalfEven(SumOf(MatValues(rows)), Len(MatValues(rows)), r)
            /\ box.maturity = FixedTier(r)
        /\ (SumOf(MatValues(rows)) = 3 /\ Len(MatValues(rows)) = 2) => box.maturity = "Silver"
        /\ (SumOf(MatValues(rows)) = 5 /\ Len(MatValues(rows)) = 2) => box.maturity = "Silver"
        /\ (SumOf(MatValues(rows)) = 6 /\ Len(MatValues(rows)) = 3) => box.maturity = "Silver"

\* C5: with at least one maturity value present, the tier of a scope is the
\* fixed map 1 -> Bronze, 2 -> Silver, 3 -> Gold of the mean of the values
\* present rounded to the nearest integer, an exact half to the even one:
\* mean 1.5 -> Silver, mean 2.5 -> Silver, values 1, 2, 3 -> Silver.
C5_TierRounding ==
    agg_pc = "banner" =>
        /\ TierOfScope(banner.county, CountyScope)
        /\ SubcountyAsked => TierOfScope(banner.subcounty, SubcountyScope)

\* a scope whose maturity values are 2 and 3: mean 2.5, tier Silver
C5_Witness ==
    /\ agg_pc = "banner"
    /\ Len(MatValues(CountyScope)) = 2
    /\ SumOf(MatValues(CountyScope)) = 5
    /\ \E i \in 1..2 : MatValues(CountyScope)[i] = 2
    /\ banner.county.maturity = "Silver"

NothingPresent(rows) ==
    \A i \in 1..Len(rows) : rows[i].score.na /\ rows[i].mat.kind = "nan"

NullBox(box) ==
    /\ ~box.raised
    /\ box.shown
    /\ box.score.null
    /\ box.maturity = NoTier
    /\ MatStr(box.maturity) = "N/A"

\* C10: on a scope with no rows, and on any scope with no score and no
\* maturity value present, the banner shows a null mean score and a null tier
\* (N/A), the facility table is empty, so is each of the Bronze, Silver and
\* Gold buckets, and nothing raises (the theme's columns being in the dataset).
C10_EmptyScope ==
    ~ColumnsMissing(schema) =>
        /\ (BannerDone /\ NothingPresent(CountyScope)) => NullBox(banner.county)
        /\ (BannerDone /\ ~banner.county.raised /\ SubcountyAsked /\ NothingPresent(SubcountyScope)) =>
                NullBox(banner.subcounty)
        /\ (agg_pc \in {"table", "table_raised"} /\ NothingPresent(df)) =>
                /\ agg_pc = "table"
                /\ agg = <<>>
                /\ \A cat \in Tiers : Bucket(agg, cat) = <<>>

\* a county selected that no row belongs to, in a dataset that holds scores
\* and maturity values
C10_Witness ==
    /\ agg_pc = "banner"
    /\ \E i \in 1..Len(df) : ~df[i].score.na /\ df[i].mat.kind = "num"
    /\ CountyScope = <<>>
    /\ banner.county.score.null
    /\ banner.county.maturity = NoTier

\* ---- Facility Aggregate Table ----
RECURSIVE ScoreSum(_)
ScoreSum(S) ==
    IF S = {} THEN 0
    ELSE LET i == CHOOSE j \in S : TRUE IN df[i].score.v + ScoreSum(S \ {i})

\* the mean score held by table row g is that of the rows S of the dataset
CarriesMeanOf(g, S) ==
    LET scored == {i \in S : ~df[i].score.na}
    IN  IF scored = {} THEN g.score.null
        ELSE /\ ~g.score.null
             /\ g.score.sum * Cardinality(scored) = ScoreSum(scored) * g.score.n

GroupKey(i, tier) ==
    [county |-> df[i].county, subcounty |-> df[i].subcounty,
     facility |-> df[i].facility, category |-> tier]

OneRowPerGroup(members, tierOf) ==
    /\ \A i \in members : \E n \in 1..Len(agg) : KeyOf(agg[n]) = GroupKey(i, tierOf[i])
    /\ \A n \in 1..Len(agg) :
        /\ \E i \in members : KeyOf(agg[n]) = GroupKey(i, tierOf[i])
        /\ CarriesMeanOf(agg[n], {i \in members : GroupKey(i, tierOf[i]) = KeyOf(agg[n])})
    /\ \A n, k \in 1..Len(agg) : KeyOf(agg[n]) = KeyOf(agg[k]) => n = k

\* C8 as stated: one row per distinct (county, subcounty, facility, tier) group
\* of the rows that have a maturity value, each with its group's mean score,
\* and every row's score >= the score of the row after it.
C8_AsStated ==
    agg_pc = "table" =>
        LET T == [i \in 1..Len(df) |-> CellTier(df[i].mat)]
        IN  /\ OneRowPerGroup({i \in 1..Len(df) : df[i].mat.kind # "nan"}, T)
            /\ \A n \in 1..(Len(agg) - 1) :
                /\ ~agg[n].score.null
                /\ ~agg[n + 1].score.null
                /\ MeanGeq(agg[n].score, agg[n + 1].score)

\* C8 amended: one row per distinct group of the rows whose maturity value is
\* the number 1, 2 or 3 (and whose county, subcounty and facility are
\* present), each with the mean of its group's scores that are present (null
\* when it has none); rows are in descending order of mean score with the
\* null-score groups last.
C8_FacilityTable ==
    agg_pc = "table" =>
        LET T == [i \in 1..Len(df) |-> FixedTier(df[i].mat.v)]
            members == {i \in 1..Len(df) :
                            /\ WellFormed(df[i].mat)
                            /\ df[i].county # NoValue
                            /\ df[i].subcounty # NoValue
                            /\ df[i].facility # NoValue}
        IN  /\ OneRowPerGroup(members, T)
            /\ \A n \in 1..(Len(agg) - 1) :
                \/ agg[n + 1].score.null
                \/ /\ ~agg[n].score.null
                   /\ MeanGeq(agg[n].score, agg[n + 1].score)

\* two groups, mean scores 85 and 60: the 85 group is first
C8_Witness ==
    /\ agg_pc = "table"
    /\ Len(agg) = 2
    /\ agg[1].score = Mean(85, 1)
    /\ agg[2].score = Mean(60, 1)

====
